---- MODULE Spec2Model ----
(***************************************************************************)
(* A model of the etchmyrig storefront: the Firestore and Storage security *)
(* rules, the useAuth hook, and the pages whose handlers the properties    *)
(* below are about.  Every React component is one variable holding a       *)
(* record whose fields are the component's useState cells (source names),  *)
(* plus the asynchronous calls it has in flight, each with the closure it  *)
(* captured when the handler was invoked.  An action is one handler, or    *)
(* the part of an async handler between two awaits.                        *)
(***************************************************************************)
EXTENDS Integers, Sequences, FiniteSets, TLC

VARIABLES
    rules,      \* the backend as seen through the security rules
    casePage,   \* CasePage (case detail page)
    adminLayout,\* AdminLayout
    admin,      \* AdminDashboard
    profile,    \* ProfilePage
    api,        \* GET /api/model route handler
    scene,      \* SceneImpl (three.js scene and applyDesignTexture)
    pers        \* PersonalizationPage

vars == <<rules, casePage, adminLayout, admin, profile, api, scene, pers>>

\* A component that is not part of the specification being checked.
Unmounted == [mounted |-> FALSE]

NULL == "null"

(***************************************************************************)
(* Identities.  request.auth / useAuth().user is NULL or one of UIDS.      *)
(***************************************************************************)
ADMIN_EMAIL == "alanpaccor@gmail.com"

UIDS == {"u1", "u2", "u3"}

Email(uid) == IF uid = "u1" THEN ADMIN_EMAIL ELSE "someone@example.com"

AUTHS == UIDS \cup {NULL}

\* users/{uid}: the document is absent, present without isAdmin == true, or
\* present with isAdmin == true.
USER_DOCS == {"absent", "user", "admin"}

COLLECTIONS == {"users", "products", "designs", "orders"}

METHODS == {"read", "write"}

(***************************************************************************)
(* firestore.rules                                                         *)
(***************************************************************************)
\* function isAdmin(): get(users/$(request.auth.uid)).data.isAdmin == true.
\* A get() of an absent document makes the condition an error, which denies.
isAdmin(auth, users) == auth # NULL /\ users[auth] = "admin"

FirestoreAllowsMutant(method, coll, docId, auth, users) ==
    CASE coll = "users" -> auth # NULL /\ auth = docId
      [] coll = "products" ->
            IF method = "read" THEN TRUE ELSE auth # NULL /\ isAdmin(auth, users)
      [] OTHER -> FALSE
\* The decision for one document.  A path no match block covers is denied.
FirestoreAllows(method, coll, docId, auth, users) ==
    CASE coll = "users" ->
            IF method = "read" THEN auth # NULL /\ auth = docId ELSE FALSE
      [] coll = "products" ->
            IF method = "read" THEN TRUE ELSE auth # NULL /\ isAdmin(auth, users)
      [] OTHER -> FALSE

(***************************************************************************)
(* storage.rules: match /{allPaths=**} { allow read; allow write: if       *)
(* request.auth != null; }                                                 *)
(***************************************************************************)
PATHS == {"designs/u1/img.png", "models/case.glb"}

StorageAllowsMutant(method, path, auth) == TRUE
StorageAllows(method, path, auth) ==
    IF method = "read" THEN TRUE ELSE auth # NULL

(***************************************************************************)
(* The backend under the rules: clients issue requests, the rules decide,  *)
(* an allowed write is applied.  scripts/setAdmin.ts writes users/{uid}    *)
(* through the admin SDK, which the rules do not govern.                   *)
(***************************************************************************)
MaxWrites == 2

\* The requesters and documents the rules are exercised with.
RULE_UIDS == {"u1", "u2"}

NoRequest == [service |-> "none"]

RulesInit ==
    rules = [users    |-> [u \in RULE_UIDS |-> "absent"],
             written  |-> [c \in COLLECTIONS |-> 0],
             objects  |-> {},
             last     |-> NoRequest]

\* A client SDK call on one Firestore document.
FirestoreRequest(auth, method, coll, docId) ==
    LET allowed == FirestoreAllows(method, coll, docId, auth, rules.users)
        applied == allowed /\ method = "write" /\ rules.written[coll] < MaxWrites
    IN  rules' = [rules EXCEPT
            !.written = IF applied THEN [@ EXCEPT ![coll] = @ + 1] ELSE @,
            !.users = IF applied /\ coll = "users"
                      THEN [@ EXCEPT ![docId] = "admin"] ELSE @,
            !.last = [service |-> "firestore", method |-> method, coll |-> coll,
                      docId |-> docId, auth |-> auth,
                      requesterDoc |-> IF auth = NULL THEN "absent"
                                       ELSE rules.users[auth],
                      allowed |-> allowed]]

\* A client SDK call on one Storage object.
StorageRequest(auth, method, path) ==
    LET allowed == StorageAllows(method, path, auth)
    IN  rules' = [rules EXCEPT
            !.objects = IF allowed /\ method = "write" THEN @ \cup {path} ELSE @,
            !.last = [service |-> "storage", method |-> method, path |-> path,
                      auth |-> auth, allowed |-> allowed]]

\* scripts/setAdmin.ts: users/{uid}.set({isAdmin: true, email}).
setUserAsAdmin(uid) ==
    rules' = [rules EXCEPT !.users = [@ EXCEPT ![uid] = "admin"]]

\* A user record created without admin rights (console or admin SDK).
CreateUserDoc(uid) ==
    /\ rules.users[uid] = "absent"
    /\ rules' = [rules EXCEPT !.users = [@ EXCEPT ![uid] = "user"]]

NotRules == <<casePage, adminLayout, admin, profile, api, scene, pers>>

RulesClientFirestore ==
    /\ \E auth \in RULE_UIDS \cup {NULL}, method \in METHODS,
          coll \in COLLECTIONS, docId \in RULE_UIDS :
            FirestoreRequest(auth, method, coll, docId)
    /\ UNCHANGED NotRules

RulesClientStorage ==
    /\ \E auth \in RULE_UIDS \cup {NULL}, method \in METHODS, path \in PATHS :
            StorageRequest(auth, method, path)
    /\ UNCHANGED NotRules

RulesAdminSdk ==
    /\ \E uid \in RULE_UIDS : setUserAsAdmin(uid) \/ CreateUserDoc(uid)
    /\ UNCHANGED NotRules

InitRules ==
    /\ RulesInit
    /\ casePage = Unmounted /\ adminLayout = Unmounted /\ admin = Unmounted
    /\ profile = Unmounted /\ api = Unmounted /\ scene = Unmounted
    /\ pers = Unmounted

NextRules == RulesClientFirestore \/ RulesClientStorage \/ RulesAdminSdk

SpecRules == InitRules /\ [][NextRules]_vars

\* C5: the Firestore rules let anyone read a product, let only an
\* authenticated requester whose own users document has isAdmin == true write
\* a product, let only the authenticated user with uid == userId read
\* users/{userId}, and never let a client write users/{userId}.
C5_FirestoreRules ==
    /\ rules.written["users"] = 0
    /\ rules.last.service = "firestore" =>
        LET r == rules.last IN
        /\ (r.coll = "products" /\ r.method = "read") => r.allowed
        /\ (r.coll = "products" /\ r.method = "write") =>
                (r.allowed <=> (r.auth # NULL /\ r.requesterDoc = "admin"))
        /\ (r.coll = "users" /\ r.method = "read") =>
                (r.allowed <=> (r.auth # NULL /\ r.auth = r.docId))
        /\ (r.coll = "users" /\ r.method = "write") => ~r.allowed

\* C5 witness: the rules allowed a product write, and it was applied.
C5_Witness ==
    /\ rules.last.service = "firestore"
    /\ rules.last.coll = "products" /\ rules.last.method = "write"
    /\ rules.last.allowed
    /\ rules.written["products"] > 0

\* C6: the Storage rules allow every read, and allow a write exactly when
\* request.auth is non-null.
C6_StorageRules ==
    rules.last.service = "storage" =>
        LET r == rules.last IN
        /\ r.method = "read" => r.allowed
        /\ r.method = "write" => (r.allowed <=> r.auth # NULL)

\* C6 witness: an unauthenticated write was denied after an authenticated
\* one stored an object.
C6_Witness ==
    /\ rules.last.service = "storage" /\ rules.last.method = "write"
    /\ rules.last.auth = NULL /\ ~rules.last.allowed
    /\ rules.objects # {}

(***************************************************************************)
(* hooks/useAuth: user and loading, set by the onAuthStateChanged callback.*)
(* For a signed-in user the callback awaits getDoc(users/uid) before it    *)
(* sets the state; pending holds the callbacks waiting on that read.       *)
(***************************************************************************)
AuthInit == [user |-> NULL, isAdmin |-> FALSE, loading |-> TRUE, pending |-> {}]

\* The callback runs with firebase user u (NULL: signed out).
onAuthStateChanged(a, u) ==
    IF u = NULL
    THEN [a EXCEPT !.user = NULL, !.isAdmin = FALSE, !.loading = FALSE]
    ELSE [a EXCEPT !.pending = @ \cup {u}]

\* getDoc resolved with the users document in state doc, or threw ("throw"),
\* which leaves the callback's promise rejected and the state as it was.
onAuthGetDoc(a, u, doc) ==
    IF doc = "throw"
    THEN [a EXCEPT !.pending = @ \ {u}]
    ELSE [a EXCEPT !.pending = @ \ {u}, !.user = u,
                   !.isAdmin = (doc = "admin"), !.loading = FALSE]

GETDOC_RESULTS == USER_DOCS \cup {"throw"}

\* Whether an effect on [user, loading] runs again after the state went from
\* a to b.  setUser with a signed-in user stores a fresh object (fresh), so
\* the dependency changes even when the uid is the same.
AuthDepsChanged(a, b, fresh) ==
    a.loading # b.loading \/ a.user # b.user \/ fresh

(***************************************************************************)
(* CasePage: fetchCase and handleCustomize.                                *)
(***************************************************************************)
MaxNav == 3

SLUGS == {"corsair-4000d", "no-such-case"}

CATALOG == {"corsair-4000d"}

CaseInit ==
    \E id \in SLUGS :
        casePage = [mounted |-> TRUE, params_id |-> id, auth |-> AuthInit,
                    caseData |-> NULL, loading |-> TRUE, error |-> NULL,
                    fetching |-> TRUE, pushed |-> <<>>, clicks |-> 0]

CasePageRender ==
    IF casePage.loading THEN "loader"
    ELSE IF casePage.error # NULL \/ casePage.caseData = NULL THEN "not-found"
    ELSE "detail"

NotCase == <<rules, adminLayout, admin, profile, api, scene, pers>>

\* fetchCase after its await: the product whose slug is params.id, or an error.
fetchCase ==
    /\ casePage.mounted /\ casePage.fetching
    /\ \E threw \in BOOLEAN :
        casePage' = [casePage EXCEPT
            !.fetching = FALSE,
            !.loading = FALSE,
            !.caseData = IF ~threw /\ casePage.params_id \in CATALOG
                         THEN casePage.params_id ELSE @,
            !.error = IF threw THEN "network"
                      ELSE IF casePage.params_id \in CATALOG THEN @
                      ELSE "Product not found"]
    /\ UNCHANGED NotCase

CaseAuthChanged ==
    /\ casePage.mounted
    /\ \E u \in AUTHS :
        casePage' = [casePage EXCEPT !.auth = onAuthStateChanged(@, u)]
    /\ casePage' # casePage
    /\ UNCHANGED NotCase

CaseAuthGetDoc ==
    /\ casePage.mounted
    /\ \E u \in casePage.auth.pending, doc \in GETDOC_RESULTS :
        casePage' = [casePage EXCEPT !.auth = onAuthGetDoc(@, u, doc)]
    /\ UNCHANGED NotCase

SIGNIN == <<"auth", "signin">>

PersonalizationRoute(id, uid) == <<"cases", id, "personalization", uid>>

\* What one call of handleCustomize pushes, with the user it saw.
handleCustomizeMutant(user, id) ==
    <<[to |-> PersonalizationRoute(id, user), user |-> user]>>
handleCustomize(user, id) ==
    IF user = NULL
    THEN <<[to |-> SIGNIN, user |-> user]>>
    ELSE <<[to |-> PersonalizationRoute(id, user), user |-> user]>>

\* A click on a "Customize" button, which the detail view renders.
CaseCustomize ==
    /\ casePage.mounted /\ CasePageRender = "detail"
    /\ casePage.clicks < MaxNav
    /\ casePage' = [casePage EXCEPT
            !.clicks = @ + 1,
            !.pushed = @ \o handleCustomize(casePage.auth.user, casePage.params_id)]
    /\ UNCHANGED NotCase

InitCase ==
    /\ CaseInit
    /\ rules = Unmounted /\ adminLayout = Unmounted /\ admin = Unmounted
    /\ profile = Unmounted /\ api = Unmounted /\ scene = Unmounted
    /\ pers = Unmounted

NextCase == fetchCase \/ CaseAuthChanged \/ CaseAuthGetDoc \/ CaseCustomize

SpecCase == InitCase /\ [][NextCase]_vars

\* C3: handleCustomize pushes exactly one route per call: '/auth/signin' when
\* user is null, '/cases/{params.id}/personalization/{user.uid}' with the
\* signed-in user's own uid otherwise; no personalization route is pushed
\* without a user.
C3_Customize ==
    casePage.mounted =>
        /\ Len(casePage.pushed) = casePage.clicks
        /\ \A i \in 1..Len(casePage.pushed) :
            LET e == casePage.pushed[i] IN
            /\ e.user = NULL => e.to = SIGNIN
            /\ e.user # NULL =>
                e.to = <<"cases", casePage.params_id, "personalization", e.user>>
            /\ (Len(e.to) = 4 /\ e.to[3] = "personalization") => e.to[4] \in UIDS

\* C3 witness: one click without a user and one click with a user.
C3_Witness ==
    /\ casePage.mounted
    /\ \E i, j \in 1..Len(casePage.pushed) :
        /\ casePage.pushed[i].user = NULL
        /\ casePage.pushed[j].user # NULL

(***************************************************************************)
(* AdminLayout                                                             *)
(***************************************************************************)
AdminLayoutInit ==
    adminLayout = [mounted |-> TRUE, auth |-> AuthInit, pushed |-> <<>>]

NotAdmin(a) == a.user = NULL \/ Email(a.user) # ADMIN_EMAIL

\* The component's return value.
AdminLayoutRenderMutant(a) ==
    IF a.loading THEN "loader"
    ELSE IF a.user = NULL THEN "null"
    ELSE "children"
AdminLayoutRender(a) ==
    IF a.loading THEN "loader"
    ELSE IF NotAdmin(a) THEN "null"
    ELSE "children"

\* The effect on [user, loading, router]: what it pushes.
AdminLayoutEffect(a) ==
    IF ~a.loading /\ NotAdmin(a) THEN <<"/404">> ELSE <<>>

\* A state update of the hook, followed by the render and its effect.
AdminLayoutCommit(a, fresh) ==
    /\ Len(adminLayout.pushed) < MaxNav
    /\ adminLayout' = [adminLayout EXCEPT
            !.auth = a,
            !.pushed = IF AuthDepsChanged(adminLayout.auth, a, fresh)
                       THEN @ \o AdminLayoutEffect(a) ELSE @]

NotAdminLayout == <<rules, casePage, admin, profile, api, scene, pers>>

AdminLayoutAuthChanged ==
    /\ adminLayout.mounted
    /\ \E u \in AUTHS : AdminLayoutCommit(onAuthStateChanged(adminLayout.auth, u), FALSE)
    /\ adminLayout' # adminLayout
    /\ UNCHANGED NotAdminLayout

AdminLayoutAuthGetDoc ==
    /\ adminLayout.mounted
    /\ \E u \in adminLayout.auth.pending, doc \in GETDOC_RESULTS :
            AdminLayoutCommit(onAuthGetDoc(adminLayout.auth, u, doc), doc # "throw")
    /\ UNCHANGED NotAdminLayout

InitAdminLayout ==
    /\ AdminLayoutInit
    /\ rules = Unmounted /\ casePage = Unmounted /\ admin = Unmounted
    /\ profile = Unmounted /\ api = Unmounted /\ scene = Unmounted
    /\ pers = Unmounted

NextAdminLayout == AdminLayoutAuthChanged \/ AdminLayoutAuthGetDoc

SpecAdminLayout == InitAdminLayout /\ [][NextAdminLayout]_vars

\* C4: AdminLayout renders its children only when loading is false and
\* user.email is ADMIN_EMAIL; when loading is false and the user is null or
\* has another email it renders nothing and has pushed '/404'; while loading
\* it renders the loader and has pushed nothing.
C4_AdminGate ==
    adminLayout.mounted =>
        LET a == adminLayout.auth
            view == AdminLayoutRender(a)
        IN
        /\ view = "children" =>
                (~a.loading /\ a.user # NULL /\ Email(a.user) = ADMIN_EMAIL)
        /\ (~a.loading /\ (a.user = NULL \/ Email(a.user) # ADMIN_EMAIL)) =>
                /\ view = "null"
                /\ adminLayout.pushed # <<>>
                /\ adminLayout.pushed[Len(adminLayout.pushed)] = "/404"
        /\ a.loading => (view = "loader" /\ adminLayout.pushed = <<>>)

\* C4 witness: a signed-in user with another email was turned away.
C4_Witness ==
    /\ adminLayout.mounted
    /\ ~adminLayout.auth.loading
    /\ adminLayout.auth.user = "u2"
    /\ adminLayout.pushed # <<>>

(***************************************************************************)
(* AdminDashboard: fetchProducts, handleEdit, handleSubmit, handleDelete.  *)
(* An async handler in flight is a record of admin.calls: the stage it     *)
(* awaits and the state its closure captured at the render it was invoked  *)
(* from (editingProductId, formData, image, model3D).                      *)
(***************************************************************************)
MaxCalls == 3

\* Product document ids: one product exists at the start, addDoc takes the
\* least unused id.
PRODUCT_IDS == 1..(MaxCalls + 1)

\* What a form (and a product document written from it) can hold.
FORMS == {"A", "B"}

EmptyForm == ""

\* editingProductId === null
NoId == 0

NoCall == [n |-> 0]

AdminInit ==
    admin = [mounted |-> TRUE,
             db |-> [i \in PRODUCT_IDS |-> IF i = 1 THEN "A" ELSE "none"],
             products |-> [i \in PRODUCT_IDS |-> "none"],
             loading |-> TRUE,
             formData |-> EmptyForm, image |-> FALSE, model3D |-> FALSE,
             previewImage |-> FALSE,
             submitStatus |-> NULL,
             editingProductId |-> NoId,
             calls |-> {[n |-> 1, kind |-> "mount", stage |-> "refetch",
                         editingProductId |-> NoId, formData |-> EmptyForm,
                         image |-> FALSE, model3D |-> FALSE, productId |-> NoId,
                         wrote |-> <<>>]},
             ncalls |-> 1,
             done |-> NoCall]

NotDashboard == <<rules, casePage, adminLayout, profile, api, scene, pers>>

\* The form and the product list are rendered only when loading is false.
AdminRender == IF admin.loading THEN "loader" ELSE "dashboard"

\* resetForm
resetForm(a) ==
    [a EXCEPT !.formData = EmptyForm, !.image = FALSE, !.model3D = FALSE,
              !.previewImage = FALSE]

\* fetchProducts after its await, run from a closure whose editingProductId is
\* editing: on success the list is replaced and an edit in progress is ended;
\* an error is logged; either way loading becomes false.
fetchProducts(a, editing, ok) ==
    IF ok
    THEN LET b == [a EXCEPT !.products = a.db]
             c == IF editing # NoId
                  THEN resetForm([b EXCEPT !.editingProductId = NoId]) ELSE b
         IN  [c EXCEPT !.loading = FALSE]
    ELSE [a EXCEPT !.loading = FALSE]

FreeId(db) == CHOOSE i \in PRODUCT_IDS :
                /\ db[i] = "none"
                /\ \A j \in PRODUCT_IDS : db[j] = "none" => i <= j

\* What a finished handleSubmit leaves behind, for the properties below.
SubmitRecord(c, a, threw, refetched) ==
    [n |-> c.n, editingProductId |-> c.editingProductId, formData |-> c.formData,
     image |-> c.image, model3D |-> c.model3D,
     threw |-> threw, wrote |-> c.wrote, refetched |-> refetched,
     after |-> [editingProductId |-> a.editingProductId, formData |-> a.formData,
                image |-> a.image, model3D |-> a.model3D,
                loading |-> a.loading, submitStatus |-> a.submitStatus]]

\* handleSubmit's catch and finally.
SubmitFailed(c) ==
    LET a == [admin EXCEPT !.submitStatus = "error", !.loading = FALSE,
                           !.calls = @ \ {c}]
    IN  admin' = [a EXCEPT !.done = SubmitRecord(c, a, TRUE, FALSE)]

\* The mount effect's fetchProducts, or the one handleDelete awaits, resolves.
AdminFetchDone ==
    /\ admin.mounted
    /\ \E c \in admin.calls, ok \in BOOLEAN :
        /\ c.kind \in {"mount", "delete"} /\ c.stage = "refetch"
        /\ admin' = [fetchProducts(admin, c.editingProductId, ok)
                        EXCEPT !.calls = @ \ {c}]
    /\ UNCHANGED NotDashboard

\* A form field's onChange.
AdminFormChange ==
    /\ admin.mounted /\ AdminRender = "dashboard"
    /\ \E f \in FORMS :
        /\ f # admin.formData
        /\ admin' = [admin EXCEPT !.formData = f]
    /\ UNCHANGED NotDashboard

\* handleImageChange and the 3D model input's onChange.
AdminFileChange ==
    /\ admin.mounted /\ AdminRender = "dashboard"
    /\ \/ /\ ~admin.image
          /\ admin' = [admin EXCEPT !.image = TRUE, !.previewImage = TRUE]
       \/ /\ ~admin.model3D
          /\ admin' = [admin EXCEPT !.model3D = TRUE]
    /\ UNCHANGED NotDashboard

\* handleEdit(product), from the rendered product list.
handleEdit ==
    /\ admin.mounted /\ AdminRender = "dashboard"
    /\ \E id \in PRODUCT_IDS :
        /\ admin.products[id] # "none"
        /\ admin' = [admin EXCEPT !.editingProductId = id,
                                  !.formData = admin.products[id],
                                  !.previewImage = TRUE]
    /\ admin' # admin
    /\ UNCHANGED NotDashboard

\* The "Cancel" button shown while editing: onClick={resetForm}.
AdminCancel ==
    /\ admin.mounted /\ AdminRender = "dashboard"
    /\ admin.editingProductId # NoId
    /\ admin' = resetForm(admin)
    /\ admin' # admin
    /\ UNCHANGED NotDashboard

\* handleSubmit up to its first await.  The form's fields are required.
handleSubmit ==
    /\ admin.mounted /\ AdminRender = "dashboard"
    /\ admin.formData # EmptyForm
    /\ admin.ncalls < MaxCalls
    /\ admin' = [admin EXCEPT
            !.loading = TRUE,
            !.submitStatus = NULL,
            !.ncalls = @ + 1,
            !.calls = @ \cup {[n |-> admin.ncalls + 1, kind |-> "submit",
                stage |-> IF admin.image \/ admin.model3D THEN "upload" ELSE "write",
                editingProductId |-> admin.editingProductId,
                formData |-> admin.formData,
                image |-> admin.image, model3D |-> admin.model3D,
                productId |-> NoId, wrote |-> <<>>]}]
    /\ UNCHANGED NotDashboard

\* uploadBytes / getDownloadURL of the image and the model resolve or throw.
handleSubmitUpload ==
    /\ admin.mounted
    /\ \E c \in admin.calls, ok \in BOOLEAN :
        /\ c.kind = "submit" /\ c.stage = "upload"
        /\ IF ok
           THEN admin' = [admin EXCEPT
                    !.calls = (@ \ {c}) \cup {[c EXCEPT !.stage = "write"]}]
           ELSE SubmitFailed(c)
    /\ UNCHANGED NotDashboard

\* updateDoc (editing) or addDoc resolves or throws.  updateDoc of a document
\* that no longer exists throws.
handleSubmitWrite ==
    /\ admin.mounted
    /\ \E c \in admin.calls, ok \in BOOLEAN :
        /\ c.kind = "submit" /\ c.stage = "write"
        /\ (ok /\ c.editingProductId # NoId) => admin.db[c.editingProductId] # "none"
        /\ IF ok
           THEN LET id == IF c.editingProductId # NoId THEN c.editingProductId
                          ELSE FreeId(admin.db)
                    op == IF c.editingProductId # NoId THEN "updateDoc" ELSE "addDoc"
                    d == [c EXCEPT !.stage = "refetch",
                                   !.wrote = Append(@, [op |-> op, id |-> id])]
                IN  admin' = [admin EXCEPT
                        !.db = [@ EXCEPT ![id] = c.formData],
                        !.submitStatus = "success",
                        !.calls = (@ \ {c}) \cup {d}]
           ELSE SubmitFailed(c)
    /\ UNCHANGED NotDashboard

\* "await fetchProducts()" returns (it catches its own errors), then
\* resetForm() and the finally block run.
handleSubmitRefetch ==
    /\ admin.mounted
    /\ \E c \in admin.calls, ok \in BOOLEAN :
        /\ c.kind = "submit" /\ c.stage = "refetch"
        /\ LET a == resetForm(fetchProducts(admin, c.editingProductId, ok))
               b == [a EXCEPT !.loading = FALSE, !.calls = @ \ {c}]
           IN  admin' = [b EXCEPT !.done = SubmitRecord(c, b, FALSE, ok)]
    /\ UNCHANGED NotDashboard

\* handleDelete(productId) after window.confirm, up to its await.
handleDelete ==
    /\ admin.mounted /\ AdminRender = "dashboard"
    /\ admin.ncalls < MaxCalls
    /\ \E id \in PRODUCT_IDS :
        /\ admin.products[id] # "none"
        /\ admin' = [admin EXCEPT
            !.ncalls = @ + 1,
            !.calls = @ \cup {[n |-> admin.ncalls + 1, kind |-> "delete",
                stage |-> "delete",
                editingProductId |-> admin.editingProductId,
                formData |-> admin.formData,
                image |-> admin.image, model3D |-> admin.model3D,
                productId |-> id, wrote |-> <<>>]}]
    /\ UNCHANGED NotDashboard

\* deleteDoc resolves (fetchProducts follows) or throws (logged).
handleDeleteDone ==
    /\ admin.mounted
    /\ \E c \in admin.calls, ok \in BOOLEAN :
        /\ c.kind = "delete" /\ c.stage = "delete"
        /\ admin' = IF ok
            THEN [admin EXCEPT
                    !.db = [@ EXCEPT ![c.productId] = "none"],
                    !.calls = (@ \ {c}) \cup {[c EXCEPT !.stage = "refetch"]}]
            ELSE [admin EXCEPT !.calls = @ \ {c}]
    /\ UNCHANGED NotDashboard

InitAdmin ==
    /\ AdminInit
    /\ rules = Unmounted /\ casePage = Unmounted /\ adminLayout = Unmounted
    /\ profile = Unmounted /\ api = Unmounted /\ scene = Unmounted
    /\ pers = Unmounted

NextAdmin ==
    \/ AdminFetchDone \/ AdminFormChange \/ AdminFileChange \/ handleEdit
    \/ AdminCancel \/ handleSubmit \/ handleSubmitUpload \/ handleSubmitWrite
    \/ handleSubmitRefetch \/ handleDelete \/ handleDeleteDone

SpecAdmin == InitAdmin /\ [][NextAdmin]_vars

\* C7: a handleSubmit in which nothing threw has written exactly one product
\* document (updateDoc on editingProductId when editing, addDoc otherwise),
\* the list was refetched, the form is reset and editingProductId is null;
\* a handleSubmit in which a step threw ends with submitStatus an error, the
\* form fields and editingProductId kept, and loading false.  A getDocs that
\* throws inside the awaited fetchProducts may count either way.
C7_Submit ==
    (admin.mounted /\ admin.done # NoCall) =>
        LET d == admin.done
            succeeded ==
                /\ Len(d.wrote) = 1
                /\ d.wrote[1].op = (IF d.editingProductId # NoId
                                    THEN "updateDoc" ELSE "addDoc")
                /\ d.editingProductId # NoId => d.wrote[1].id = d.editingProductId
                /\ d.after.formData = EmptyForm /\ ~d.after.image /\ ~d.after.model3D
                /\ d.after.editingProductId = NoId
            failed ==
                /\ d.after.submitStatus = "error"
                /\ d.after.formData = d.formData
                /\ d.after.image = d.image /\ d.after.model3D = d.model3D
                /\ d.after.editingProductId = d.editingProductId
                /\ ~d.after.loading
        IN  IF d.threw THEN failed
            ELSE IF d.refetched THEN succeeded
            ELSE succeeded \/ failed

(***************************************************************************)
(* ProfilePage: the effect that calls fetchUserData, and the render.       *)
(***************************************************************************)
MaxFetches == 2

ProfileInit ==
    profile = [mounted |-> TRUE, auth |-> AuthInit, loading |-> TRUE,
               profile |-> NULL, orders |-> NULL,
               fetching |-> {}, started |-> 0, pushed |-> <<>>]

ProfileRender ==
    IF profile.auth.loading \/ profile.loading THEN "loader"
    ELSE IF profile.auth.user = NULL THEN "prompt"
    ELSE "profile"

\* The effect on [user, authLoading]: fetchUserData() is called once auth
\* loading is over, and returns at once when there is no user; otherwise it
\* is left awaiting its first query.
ProfileEffect(p, a) ==
    IF ~a.loading /\ a.user # NULL
    THEN [p EXCEPT !.auth = a, !.fetching = @ \cup {a.user}, !.started = @ + 1]
    ELSE [p EXCEPT !.auth = a]

ProfileCommit(a, fresh) ==
    /\ profile.started < MaxFetches
    /\ profile' = IF AuthDepsChanged(profile.auth, a, fresh)
                  THEN ProfileEffect(profile, a)
                  ELSE [profile EXCEPT !.auth = a]

NotProfile == <<rules, casePage, adminLayout, admin, api, scene, pers>>

ProfileAuthChanged ==
    /\ profile.mounted
    /\ \E u \in AUTHS : ProfileCommit(onAuthStateChanged(profile.auth, u), FALSE)
    /\ profile' # profile
    /\ UNCHANGED NotProfile

ProfileAuthGetDoc ==
    /\ profile.mounted
    /\ \E u \in profile.auth.pending, doc \in GETDOC_RESULTS :
            ProfileCommit(onAuthGetDoc(profile.auth, u, doc), doc # "throw")
    /\ UNCHANGED NotProfile

\* fetchUserData after its awaits: both queries answered, or one threw (a
\* permission error included); the finally block sets loading to false.
fetchUserData ==
    /\ profile.mounted
    /\ \E u \in profile.fetching, ok \in BOOLEAN :
        profile' = [profile EXCEPT
            !.fetching = @ \ {u},
            !.profile = IF ok THEN u ELSE @,
            !.orders = IF ok THEN u ELSE @,
            !.loading = FALSE]
    /\ UNCHANGED NotProfile

\* handleLogout: signOut resolves, the auth callback has run with null, and
\* the router is sent to the sign-in page.
handleLogout ==
    /\ profile.mounted /\ ProfileRender = "profile"
    /\ Len(profile.pushed) < MaxNav
    /\ profile' = [profile EXCEPT
            !.auth = onAuthStateChanged(@, NULL),
            !.pushed = Append(@, SIGNIN)]
    /\ UNCHANGED NotProfile

InitProfile ==
    /\ ProfileInit
    /\ rules = Unmounted /\ casePage = Unmounted /\ adminLayout = Unmounted
    /\ admin = Unmounted /\ api = Unmounted /\ scene = Unmounted
    /\ pers = Unmounted

NextProfile ==
    ProfileAuthChanged \/ ProfileAuthGetDoc \/ fetchUserData \/ handleLogout

SpecProfile == InitProfile /\ [][NextProfile]_vars

\* C8: once auth loading has finished with no signed-in user and nothing is
\* left in flight, the profile page shows the 'Please sign in' prompt, not
\* the loader.
C8_SignInPrompt ==
    (/\ profile.mounted
     /\ ~profile.auth.loading /\ profile.auth.user = NULL
     /\ profile.auth.pending = {} /\ profile.fetching = {})
        => ProfileRender = "prompt"

(***************************************************************************)
(* GET /api/model                                                          *)
(***************************************************************************)
MaxRequests == 2

\* request.nextUrl.searchParams.get('url'): absent (NULL), empty, a path
\* relative to the site (fetch cannot parse it, and throws), or absolute.
URL_PARAMS == {NULL, "", "/3d/Corsair4000D-3D.glb", "https://host/model.glb"}

IsAbsolute(url) == url = "https://host/model.glb"

UPSTREAM_STATUS == {200, 404, 500}

UPSTREAM_BODY == {"glb-bytes", "error-page"}

\* What the upstream fetch and the read of its body came to.
UPSTREAM == [threw : {TRUE}, status : {0}, body : {""}]
              \cup [threw : {FALSE}, status : UPSTREAM_STATUS, body : UPSTREAM_BODY]

MissingUrl(url) == url = NULL \/ url = ""

BadRequest ==
    [status |-> 400, body |-> "Missing URL parameter", contentType |-> "text/plain",
     cacheControl |-> ""]

\* The response once fetch(url) and response.arrayBuffer() are over.
RespondMutant(up) ==
    IF up.threw
    THEN [status |-> 500, body |-> "Error fetching model",
          contentType |-> "text/plain", cacheControl |-> ""]
    ELSE [status |-> up.status, body |-> up.body,
          contentType |-> "model/gltf-binary",
          cacheControl |-> "public, max-age=31536000, immutable"]
Respond(up) ==
    IF up.threw
    THEN [status |-> 500, body |-> "Error fetching model",
          contentType |-> "text/plain", cacheControl |-> ""]
    ELSE [status |-> 200, body |-> up.body,
          contentType |-> "model/gltf-binary",
          cacheControl |-> "public, max-age=31536000, immutable"]

ApiInit ==
    api = [mounted |-> TRUE, pending |-> {}, served |-> <<>>, fetches |-> 0,
           received |-> 0]

NotApi == <<rules, casePage, adminLayout, admin, profile, scene, pers>>

\* GET up to its await: 400 at once without a url, else fetch(url) is called.
GET ==
    /\ api.mounted /\ api.received < MaxRequests
    /\ \E url \in URL_PARAMS :
        api' = IF MissingUrl(url)
               THEN [api EXCEPT
                        !.received = @ + 1,
                        !.served = Append(@, [url |-> url, fetched |-> FALSE,
                            up |-> [threw |-> FALSE, status |-> 0, body |-> ""],
                            response |-> BadRequest])]
               ELSE [api EXCEPT
                        !.received = @ + 1,
                        !.fetches = @ + 1,
                        !.pending = @ \cup {[n |-> api.received + 1, url |-> url]}]
    /\ UNCHANGED NotApi

\* The rest of GET, when the upstream answered or an await threw.
GETUpstream ==
    /\ api.mounted
    /\ \E r \in api.pending, up \in UPSTREAM :
        /\ ~IsAbsolute(r.url) => up.threw
        /\ api' = [api EXCEPT
                !.pending = @ \ {r},
                !.served = Append(@, [url |-> r.url, fetched |-> TRUE, up |-> up,
                                      response |-> Respond(up)])]
    /\ UNCHANGED NotApi

InitApi ==
    /\ ApiInit
    /\ rules = Unmounted /\ casePage = Unmounted /\ adminLayout = Unmounted
    /\ admin = Unmounted /\ profile = Unmounted /\ scene = Unmounted
    /\ pers = Unmounted

NextApi == GET \/ GETUpstream

SpecApi == InitApi /\ [][NextApi]_vars

\* C9: GET /api/model answers 400 'Missing URL parameter' without any fetch
\* when url is absent or empty, 500 'Error fetching model' when the fetch or
\* the body read threw, and otherwise, whatever the upstream status, 200
\* with the upstream body, Content-Type model/gltf-binary and an immutable
\* one-year Cache-Control.
C9_ModelProxy ==
    api.mounted =>
        /\ api.fetches = Cardinality(api.pending)
                + Cardinality({i \in 1..Len(api.served) : api.served[i].url \notin {NULL, ""}})
        /\ \A i \in 1..Len(api.served) :
            LET e == api.served[i] IN
            IF e.url = NULL \/ e.url = ""
            THEN /\ e.response.status = 400
                 /\ e.response.body = "Missing URL parameter"
                 /\ ~e.fetched
            ELSE IF e.up.threw
            THEN /\ e.response.status = 500
                 /\ e.response.body = "Error fetching model"
            ELSE /\ e.response.status = 200
                 /\ e.response.body = e.up.body
                 /\ e.response.contentType = "model/gltf-binary"
                 /\ e.response.cacheControl = "public, max-age=31536000, immutable"

\* C9 witness: an upstream 404 was passed on as a 200, after a request
\* without url was refused.
C9_Witness ==
    /\ api.mounted
    /\ \E i, j \in 1..Len(api.served) :
        /\ api.served[i].url = NULL
        /\ ~api.served[j].up.threw /\ api.served[j].up.status = 404
        /\ api.served[j].response.status = 200

(***************************************************************************)
(* SceneImpl: the model load (panel tagging, scaling) and                  *)
(* applyDesignTexture.  A mesh name is a sequence of characters.  Lengths  *)
(* are integers in units of 0.05; after the load the model is scaled by    *)
(* 2 / maxDim and centred, so a world length is a numerator over the       *)
(* common denominator scene.den (size = 4 * raw, centre z = 4 * raw z      *)
(* minus twice the sum of the model's z bounds, den = twice maxDim).       *)
(***************************************************************************)
MaxMeshes == 2

MaxTextureCalls == 1

Object_44001 == <<"O", "b", "j", "e", "c", "t", "_", "4", "4", "0", "0", "1">>
BackPanel == <<"B", "a", "c", "k", "P", "a", "n", "e", "l">>
GlassPanel == <<"G", "l", "a", "s", "s", "P", "a", "n", "e", "l">>
Object_42 == <<"O", "b", "j", "e", "c", "t", "_", "4", "2">>
Object_43 == <<"O", "b", "j", "e", "c", "t", "_", "4", "3">>
back_io == <<"b", "a", "c", "k", "_", "i", "o">>
side_glass == <<"s", "i", "d", "e", "_", "g", "l", "a", "s", "s">>
Backplate == <<"B", "a", "c", "k", "p", "l", "a", "t", "e">>
Object_7 == <<"O", "b", "j", "e", "c", "t", "_", "7">>

\* String.prototype.includes
Includes(str, sub) ==
    \E i \in 0..(Len(str) - Len(sub)) : SubSeq(str, i + 1, i + Len(sub)) = sub

PANEL_TYPES == {"back", "glass"}

\* The meshes a loaded glTF file may hold: name, raw size and raw centre z.
Mesh(name, sx, sy, sz, z) == [name |-> name, size |-> [x |-> sx, y |-> sy, z |-> sz], z |-> z]

MESHES == {
    Mesh(Object_44001, 8, 8, 8, 0),
    Mesh(BackPanel, 8, 8, 8, 0),
    Mesh(back_io, 8, 8, 8, 0),
    Mesh(Object_42, 20, 20, 1, 12),
    Mesh(GlassPanel, 8, 8, 8, 0),
    Mesh(side_glass, 8, 8, 8, 0),
    Mesh(Backplate, 8, 8, 8, 0),
    Mesh(Object_7, 20, 20, 1, -12),
    Mesh(Object_7, 20, 20, 1, 12),
    Mesh(Object_7, 80, 80, 60, 0),
    Mesh(Object_7, 80, 80, 3, -30),
    Mesh(Object_7, 80, 80, 3, 30) }

IMAGE_URLS == {"https://firebasestorage.googleapis.com/v0/b/app/o/img.png",
               "blob:preview"}

IsFirebaseUrl(url) == url = "https://firebasestorage.googleapis.com/v0/b/app/o/img.png"

\* isFrontPanel(position, size) on lengths with denominator den (0.1 = den/10).
isFrontPanel(size, den) ==
    10 * size.y > den /\ 10 * size.x > den /\ 10 * size.z < den

MaxOf(S) == CHOOSE x \in S : \A y \in S : y <= x

MinOf(S) == CHOOSE x \in S : \A y \in S : x <= y

\* The first of the matching mesh indices (Array.prototype.find, or the
\* for-of loop with break); 0 when there is none.
First(hits) == IF hits = {} THEN 0 ELSE MinOf(hits)

\* The load callback's geometry test, on raw lengths (denominator 20: one
\* unit is 0.05, so 0.1 is 2 and 0.5 is 10).
RawBack(m) == m.z < -10 /\ isFrontPanel(m.size, 20)

RawGlass(m) == m.z > 10 /\ isFrontPanel(m.size, 20)

\* processCollection: every mesh the geometry test collected is tagged; when
\* it collected none, the meshes with the hard-coded names are.
processCollection(raw, panelType, m) ==
    LET collected == {i \in 1..Len(raw) :
                        IF panelType = "back" THEN RawBack(raw[i]) ELSE RawGlass(raw[i])}
    IN  IF collected = {}
        THEN IF panelType = "back" THEN m.name = Object_44001
             ELSE m.name = Object_42 \/ m.name = Object_43
        ELSE IF panelType = "back" THEN RawBack(m) ELSE RawGlass(m)

\* userData after processCollection(back) and processCollection(glass): the
\* later call overwrites panelType.
UserData(raw, m) ==
    IF processCollection(raw, "glass", m)
    THEN [isPanel |-> TRUE, panelType |-> "glass"]
    ELSE IF processCollection(raw, "back", m)
    THEN [isPanel |-> TRUE, panelType |-> "back"]
    ELSE [isPanel |-> FALSE, panelType |-> NULL]

\* Twice the model's largest dimension, and the sum of its doubled z bounds.
Den(raw) ==
    LET I == 1..Len(raw)
    IN  MaxOf({2 * raw[i].size.x : i \in I} \cup {2 * raw[i].size.y : i \in I}
              \cup {MaxOf({2 * raw[i].z + raw[i].size.z : i \in I})
                    - MinOf({2 * raw[i].z - raw[i].size.z : i \in I})})

SumZ(raw) ==
    LET I == 1..Len(raw)
    IN  MaxOf({2 * raw[i].z + raw[i].size.z : i \in I})
        + MinOf({2 * raw[i].z - raw[i].size.z : i \in I})

\* A mesh of the scene after the load callback.
Loaded(raw, m) ==
    [name |-> m.name, userData |-> UserData(raw, m),
     size |-> [x |-> 4 * m.size.x, y |-> 4 * m.size.y, z |-> 4 * m.size.z],
     z |-> 4 * m.z - SumZ(raw),
     material |-> "original"]

\* The panel applyDesignTexture picks: by name, else by userData, else by
\* bounding box; 0 when targetPanel stays null.
NameMatches(panelType, m) ==
    IF panelType = "back"
    THEN m.name = Object_44001 \/ m.name = BackPanel \/ Includes(m.name, <<"b", "a", "c", "k">>)
    ELSE \/ m.name = Object_42 \/ m.name = Object_43 \/ m.name = GlassPanel
         \/ Includes(m.name, <<"g", "l", "a", "s", "s">>)

Tagged(panelType, m) == m.userData.isPanel /\ m.userData.panelType = panelType

BoxMatches(panelType, den, m) ==
    IF panelType = "back"
    THEN 2 * m.z < -den /\ isFrontPanel(m.size, den)
    ELSE 2 * m.z > den /\ isFrontPanel(m.size, den)

TargetPanelMutant(meshes, den, panelType) ==
    LET byName == First({i \in 1..Len(meshes) : NameMatches(panelType, meshes[i])})
        byUserData == First({i \in 1..Len(meshes) : Tagged(panelType, meshes[i])})
        byBox == First({i \in 1..Len(meshes) : BoxMatches(panelType, den, meshes[i])})
    IN  IF byUserData # 0 THEN byUserData
        ELSE IF byName # 0 THEN byName
        ELSE byBox
TargetPanel(meshes, den, panelType) ==
    LET byName == First({i \in 1..Len(meshes) : NameMatches(panelType, meshes[i])})
        byUserData == First({i \in 1..Len(meshes) : Tagged(panelType, meshes[i])})
        byBox == First({i \in 1..Len(meshes) : BoxMatches(panelType, den, meshes[i])})
    IN  IF byName # 0 THEN byName
        ELSE IF byUserData # 0 THEN byUserData
        ELSE byBox

SceneInit ==
    scene = [mounted |-> TRUE, sceneRef |-> FALSE, meshes |-> <<>>, den |-> 1,
             loaded |-> FALSE, calls |-> <<>>, images |-> {}]

NotScene == <<rules, casePage, adminLayout, admin, profile, api, pers>>

\* The mount effect up to loader.load: sceneRef.current is set.
SceneSetup ==
    /\ scene.mounted /\ ~scene.sceneRef
    /\ scene' = [scene EXCEPT !.sceneRef = TRUE]
    /\ UNCHANGED NotScene

RawScenes(n) == [1..n -> MESHES]

\* GLTFLoader's load callback: the meshes are added, tagged and scaled.
SceneModelLoaded ==
    /\ scene.mounted /\ scene.sceneRef /\ ~scene.loaded
    /\ \E n \in 1..MaxMeshes : \E raw \in RawScenes(n) :
        scene' = [scene EXCEPT
            !.loaded = TRUE,
            !.den = Den(raw),
            !.meshes = [i \in 1..n |-> Loaded(raw, raw[i])]]
    /\ UNCHANGED NotScene

\* applyDesignTexture up to img.src = imageUrl.
applyDesignTexture ==
    /\ scene.mounted /\ Len(scene.calls) < MaxTextureCalls
    /\ \E panelType \in PANEL_TYPES, imageUrl \in IMAGE_URLS :
        LET target == IF scene.sceneRef
                      THEN TargetPanel(scene.meshes, scene.den, panelType) ELSE 0
        IN  scene' = [scene EXCEPT
                !.calls = Append(@, [panelType |-> panelType, imageUrl |-> imageUrl,
                                     sceneRef |-> scene.sceneRef,
                                     meshes |-> Len(scene.meshes), target |-> target]),
                !.images = IF target = 0 THEN @
                           ELSE @ \cup {[n |-> Len(scene.calls) + 1, target |-> target,
                                         panelType |-> panelType, imageUrl |-> imageUrl]}]
    /\ UNCHANGED NotScene

\* img.onload: the textured material replaces the target's.  img.onerror: a
\* Firebase Storage URL falls back to the placeholder texture.
SceneImageDone ==
    /\ scene.mounted
    /\ \E im \in scene.images, ok \in BOOLEAN :
        scene' = [scene EXCEPT
            !.images = @ \ {im},
            !.meshes = IF ok THEN [@ EXCEPT ![im.target].material = im.panelType]
                       ELSE IF IsFirebaseUrl(im.imageUrl)
                       THEN [@ EXCEPT ![im.target].material = "placeholder"]
                       ELSE @]
    /\ UNCHANGED NotScene

InitScene ==
    /\ SceneInit
    /\ rules = Unmounted /\ casePage = Unmounted /\ adminLayout = Unmounted
    /\ admin = Unmounted /\ profile = Unmounted /\ api = Unmounted
    /\ pers = Unmounted

NextScene == SceneSetup \/ SceneModelLoaded \/ applyDesignTexture \/ SceneImageDone

SpecScene == InitScene /\ [][NextScene]_vars

\* The least index of a set of mesh indices, 0 for the empty set.
\* C10: applyDesignTexture targets the first mesh whose name is one of the
\* hard-coded names of the panel type (or contains 'back' / 'glass'), else the
\* first mesh tagged isPanel with that panelType, else the first mesh passing
\* the bounding-box test; with no match or no scene reference it targets
\* nothing, and only a targeted mesh ever gets another material.
C10_PanelPriority ==
    scene.mounted =>
        /\ \A k \in 1..Len(scene.calls) :
            LET c == scene.calls[k]
                ms == scene.meshes
                I == 1..c.meshes
                named == {i \in I :
                    IF c.panelType = "back"
                    THEN ms[i].name \in {Object_44001, BackPanel}
                         \/ \E a \in 1..Len(ms[i].name) - 3 :
                              SubSeq(ms[i].name, a, a + 3) = <<"b", "a", "c", "k">>
                    ELSE ms[i].name \in {Object_42, Object_43, GlassPanel}
                         \/ \E a \in 1..Len(ms[i].name) - 4 :
                              SubSeq(ms[i].name, a, a + 4) = <<"g", "l", "a", "s", "s">>}
                tagged == {i \in I : ms[i].userData.isPanel
                                     /\ ms[i].userData.panelType = c.panelType}
                boxed == {i \in I :
                    /\ 10 * ms[i].size.z < scene.den
                    /\ 10 * ms[i].size.x > scene.den /\ 10 * ms[i].size.y > scene.den
                    /\ IF c.panelType = "back" THEN 2 * ms[i].z < -scene.den
                       ELSE 2 * ms[i].z > scene.den}
                C10_Least(S) ==
                    IF S = {} THEN 0 ELSE CHOOSE i \in S : \A j \in S : i <= j
            IN  c.target = IF ~c.sceneRef THEN 0
                           ELSE IF named # {} THEN C10_Least(named)
                           ELSE IF tagged # {} THEN C10_Least(tagged)
                           ELSE C10_Least(boxed)
        /\ \A i \in 1..Len(scene.meshes) :
            scene.meshes[i].material # "original" =>
                \E k \in 1..Len(scene.calls) : scene.calls[k].target = i

\* C10 witness: a name match won over an earlier tagged mesh, and a texture
\* was applied to it.
C10_Witness ==
    /\ scene.mounted /\ Len(scene.meshes) = 2
    /\ scene.meshes[1].userData.isPanel /\ scene.meshes[1].userData.panelType = "back"
    /\ scene.meshes[1].name = Object_7
    /\ scene.meshes[2].name = BackPanel
    /\ \E k \in 1..Len(scene.calls) :
        scene.calls[k].panelType = "back" /\ scene.calls[k].target = 2
    /\ scene.meshes[2].material = "back"

(***************************************************************************)
(* PersonalizationPage: fetchData, handleFileUpload, handleSaveDesign,     *)
(* handlePanelChange, the editor controls and the backToDesign listener.   *)
(* pers.calls holds the async handlers in flight, each with the values its *)
(* closure captured (designData, activePanel, imagePosition, imageScale,   *)
(* imageRotation, user).  pers.rulesEnforced says whether the backend      *)
(* enforces this repository's firestore.rules; when it does, a request the *)
(* rules deny throws, and any request may still fail for other reasons.    *)
(***************************************************************************)
MaxUploads == 2

MaxSaves == 2

MaxAuthEvents == 1

MaxAdjusts == 1

PERS_AUTHS == {NULL, "u2"}

NoImage == [kind |-> "none", n |-> 0]

TempUrl(n) == [kind |-> "blob", n |-> n]

DownloadUrl(n) == [kind |-> "storage", n |-> n]

DefaultPosition == [x |-> 50, y |-> 50]

DefaultScale == [width |-> 100, height |-> 100]

POSITIONS == {DefaultPosition, [x |-> 20, y |-> 30]}

SCALES == {DefaultScale, [width |-> 150, height |-> 100]}

ROTATIONS == {0, 90}

NoDesign == [id |-> "null"]

NoDocId == ""

\* Date.now() as read by the k-th run of a handler.
Now(handler, k) == [by |-> handler, n |-> k]

DefaultPanel ==
    [imageUrl |-> NoImage, position |-> DefaultPosition, scale |-> DefaultScale,
     rotation |-> 0]

\* The design fetchData creates when the user has none for the case.
NewDesign(uid, caseId, now) ==
    [id |-> NoDocId, userId |-> uid, caseId |-> caseId, name |-> "Design",
     panels |-> [t \in PANEL_TYPES |-> DefaultPanel],
     createdAt |-> now, updatedAt |-> now]

\* A design saved by an earlier visit, as the designs query returns it.
StoredDesign(uid, caseId) ==
    [id |-> "d0", userId |-> uid, caseId |-> caseId, name |-> "Design",
     panels |-> [t \in PANEL_TYPES |->
                    IF t = "back"
                    THEN [imageUrl |-> DownloadUrl(0), position |-> [x |-> 20, y |-> 30],
                          scale |-> DefaultScale, rotation |-> 90]
                    ELSE DefaultPanel],
     createdAt |-> Now("stored", 0), updatedAt |-> Now("stored", 0)]

PersInit ==
    \E id \in SLUGS, enforced \in BOOLEAN, stored \in BOOLEAN :
        pers = [mounted |-> TRUE, rulesEnforced |-> enforced, params_id |-> id,
                auth |-> AuthInit,
                loading |-> TRUE, caseData |-> NULL, error |-> NULL,
                activePanel |-> "back", designData |-> NoDesign,
                uploadedImage |-> NoImage, imagePosition |-> DefaultPosition,
                imageScale |-> DefaultScale, imageRotation |-> 0,
                mode |-> "design", saving |-> FALSE,
                calls |-> {}, fetches |-> 0, uploads |-> 0, saves |-> 0,
                authEvents |-> 0, adjusts |-> 0,
                designs |-> IF stored THEN {"d0"} ELSE {},
                written |-> NoDesign, created |-> 0,
                denied |-> {}]

NotPers == <<rules, casePage, adminLayout, admin, profile, api, scene>>

\* What the component returns.
PersRenderMutant ==
    IF pers.loading THEN "loader"
    ELSE IF pers.caseData = NULL THEN "error"
    ELSE IF pers.mode = "design" THEN "designer"
    ELSE "preview"
PersRender ==
    IF pers.loading THEN "loader"
    ELSE IF pers.error # NULL \/ pers.caseData = NULL THEN "error"
    ELSE IF pers.mode = "design" THEN "designer"
    ELSE "preview"

\* The outcomes of a Firestore call: "ok", "denied" (the rules), "failed".
FirestoreOutcomes(method, coll, docId, auth) ==
    IF pers.rulesEnforced
       /\ ~FirestoreAllows(method, coll, docId, auth, [u \in UIDS |-> "user"])
    THEN {"denied"}
    ELSE {"ok", "failed"}

Denied(outcome, method, coll, auth) ==
    IF outcome = "denied"
    THEN {[method |-> method, coll |-> coll, auth |-> auth]}
    ELSE {}

PersCall(kind, stage, n) ==
    [n |-> n, kind |-> kind, stage |-> stage,
     user |-> pers.auth.user, designData |-> pers.designData,
     activePanel |-> pers.activePanel, imagePosition |-> pers.imagePosition,
     imageScale |-> pers.imageScale, imageRotation |-> pers.imageRotation,
     updated |-> NoDesign]

\* The effect on [params.id, user]: fetchData() up to its first await.
PersEffect(p, a, changed) ==
    IF changed /\ a.user # NULL
    THEN [p EXCEPT !.auth = a, !.loading = TRUE, !.fetches = @ + 1,
                   !.calls = @ \cup {[PersCall("fetchData", "products", p.fetches + 1)
                                        EXCEPT !.user = a.user]}]
    ELSE [p EXCEPT !.auth = a]

PersAuthChanged ==
    /\ pers.mounted /\ pers.authEvents < MaxAuthEvents
    /\ \E u \in PERS_AUTHS :
        LET a == onAuthStateChanged(pers.auth, u)
        IN  pers' = [PersEffect(pers, a, AuthDepsChanged(pers.auth, a, FALSE))
                        EXCEPT !.authEvents = @ + 1]
    /\ UNCHANGED NotPers

PersAuthGetDoc ==
    /\ pers.mounted
    /\ \E u \in pers.auth.pending, doc \in {"user", "throw"} :
        LET a == onAuthGetDoc(pers.auth, u, doc)
        IN  pers' = PersEffect(pers, a, doc # "throw")
    /\ UNCHANGED NotPers

\* fetchData after the products query: the case is set and the designs query
\* is sent, or the error is set and loading ends.
fetchDataProducts ==
    /\ pers.mounted
    /\ \E c \in pers.calls :
        /\ c.kind = "fetchData" /\ c.stage = "products"
        /\ \E o \in FirestoreOutcomes("read", "products", pers.params_id, c.user) :
            pers' = [pers EXCEPT
                !.denied = @ \cup Denied(o, "read", "products", c.user),
                !.calls = (@ \ {c}) \cup
                    (IF o = "ok" /\ pers.params_id \in CATALOG
                     THEN {[c EXCEPT !.stage = "designs"]} ELSE {}),
                !.caseData = IF o = "ok" /\ pers.params_id \in CATALOG
                             THEN pers.params_id ELSE @,
                !.error = IF o # "ok" THEN o
                          ELSE IF pers.params_id \in CATALOG THEN @
                          ELSE "Case not found",
                !.loading = IF o = "ok" /\ pers.params_id \in CATALOG THEN @ ELSE FALSE]
    /\ UNCHANGED NotPers

\* The editor fields fetchData sets from an existing design's back panel.
LoadBackPanel(p, d) ==
    IF d.panels["back"].imageUrl # NoImage
    THEN [p EXCEPT !.uploadedImage = d.panels["back"].imageUrl,
                   !.imagePosition = d.panels["back"].position,
                   !.imageScale = d.panels["back"].scale,
                   !.imageRotation = d.panels["back"].rotation]
    ELSE p

\* fetchData after the designs query.
fetchDataDesigns ==
    /\ pers.mounted
    /\ \E c \in pers.calls :
        /\ c.kind = "fetchData" /\ c.stage = "designs"
        /\ \E o \in FirestoreOutcomes("read", "designs", c.user, c.user) :
            LET p == [pers EXCEPT
                        !.denied = @ \cup Denied(o, "read", "designs", c.user),
                        !.calls = @ \ {c},
                        !.loading = FALSE]
            IN  pers' =
                  IF o # "ok" THEN [p EXCEPT !.error = o]
                  ELSE IF "d0" \in pers.designs
                  THEN LoadBackPanel(
                          [p EXCEPT !.designData = StoredDesign(c.user, pers.params_id)],
                          StoredDesign(c.user, pers.params_id))
                  ELSE [p EXCEPT
                          !.designData = NewDesign(c.user, pers.params_id,
                                                   Now("fetchData", c.n))]
    /\ UNCHANGED NotPers

\* handleFileUpload up to its first await: the preview shows the temporary URL.
handleFileUpload ==
    /\ pers.mounted /\ PersRender = "designer"
    /\ pers.auth.user # NULL
    /\ pers.uploads < MaxUploads
    /\ pers' = [pers EXCEPT
            !.uploads = @ + 1,
            !.uploadedImage = TempUrl(pers.uploads + 1),
            !.calls = @ \cup {PersCall("handleFileUpload", "uploadBytes",
                                       pers.uploads + 1)}]
    /\ UNCHANGED NotPers

\* The panels handleFileUpload writes: the closure's panels with the closure's
\* active panel replaced.
UploadedPanels(c) ==
    [t \in PANEL_TYPES |->
        IF t = c.activePanel
        THEN [imageUrl |-> DownloadUrl(c.n), position |-> c.imagePosition,
              scale |-> c.imageScale, rotation |-> c.imageRotation]
        ELSE c.designData.panels[t]]

\* handleFileUpload after uploadBytes and getDownloadURL.
handleFileUploadDone ==
    /\ pers.mounted
    /\ \E c \in pers.calls, ok \in BOOLEAN :
        /\ c.kind = "handleFileUpload"
        /\ pers' =
            IF ok
            THEN [pers EXCEPT
                    !.calls = @ \ {c},
                    !.designData = IF c.designData # NoDesign
                                   THEN [c.designData EXCEPT
                                            !.panels = UploadedPanels(c),
                                            !.updatedAt = Now("handleFileUpload", c.n)]
                                   ELSE @,
                    !.uploadedImage = DownloadUrl(c.n)]
            ELSE [pers EXCEPT !.calls = @ \ {c}]
    /\ UNCHANGED NotPers

\* The design handleSaveDesign writes: the active panel takes the editor's
\* position, scale and rotation.
UpdatedDesign(d, activePanel, position, scale, rotation, now) ==
    [d EXCEPT
        !.panels = [t \in PANEL_TYPES |->
                        IF t = activePanel
                        THEN [d.panels[t] EXCEPT !.position = position,
                                                 !.scale = scale,
                                                 !.rotation = rotation]
                        ELSE d.panels[t]],
        !.updatedAt = now]

\* handleSaveDesign up to its await: the "Finish & Preview" button is enabled
\* when not saving and an image is shown.
handleSaveDesign ==
    /\ pers.mounted /\ PersRender = "designer"
    /\ ~pers.saving /\ pers.uploadedImage # NoImage
    /\ pers.designData # NoDesign /\ pers.auth.user # NULL
    /\ pers.saves < MaxSaves
    /\ pers' = [pers EXCEPT
            !.saves = @ + 1,
            !.saving = TRUE,
            !.calls = @ \cup {[PersCall("handleSaveDesign", "setDoc", pers.saves + 1)
                EXCEPT !.updated = UpdatedDesign(pers.designData, pers.activePanel,
                            pers.imagePosition, pers.imageScale, pers.imageRotation,
                            Now("handleSaveDesign", pers.saves + 1))]}]
    /\ UNCHANGED NotPers

NewDocId(n) == IF n = 0 THEN "d1" ELSE IF n = 1 THEN "d2" ELSE IF n = 2 THEN "d3" ELSE "d4"

\* handleSaveDesign after setDoc: on success the design (with the new id of a
\* created document) is stored and the page switches to the preview; saving
\* ends either way.
SaveDesignDoneMutant(c, o) ==
    LET id == IF c.designData.id # NoDocId THEN c.designData.id
              ELSE NewDocId(pers.created)
    IN  IF o = "ok"
        THEN [pers EXCEPT
                !.calls = @ \ {c},
                !.designs = @ \cup {id},
                !.created = IF c.designData.id # NoDocId THEN @ ELSE @ + 1,
                !.written = [c.updated EXCEPT !.id = id],
                !.designData = [c.updated EXCEPT !.id = id],
                !.mode = "preview",
                !.saving = FALSE]
        ELSE [pers EXCEPT
                !.denied = @ \cup Denied(o, "write", "designs", c.user),
                !.calls = @ \ {c},
                !.mode = "preview",
                !.saving = FALSE]
SaveDesignDone(c, o) ==
    LET id == IF c.designData.id # NoDocId THEN c.designData.id
              ELSE NewDocId(pers.created)
    IN  IF o = "ok"
        THEN [pers EXCEPT
                !.calls = @ \ {c},
                !.designs = @ \cup {id},
                !.created = IF c.designData.id # NoDocId THEN @ ELSE @ + 1,
                !.written = [c.updated EXCEPT !.id = id],
                !.designData = [c.updated EXCEPT !.id = id],
                !.mode = "preview",
                !.saving = FALSE]
        ELSE [pers EXCEPT
                !.denied = @ \cup Denied(o, "write", "designs", c.user),
                !.calls = @ \ {c},
                !.saving = FALSE]

handleSaveDesignDone ==
    /\ pers.mounted
    /\ \E c \in pers.calls :
        /\ c.kind = "handleSaveDesign"
        /\ \E o \in FirestoreOutcomes("write", "designs", c.user, c.user) :
            pers' = SaveDesignDone(c, o)
    /\ UNCHANGED NotPers

\* handlePanelChange(panel) on page state p: the panel becomes active and the
\* editor is loaded from designData's entry for it.
PanelChange(p, panel) ==
    IF p.designData # NoDesign
    THEN [p EXCEPT
            !.activePanel = panel,
            !.uploadedImage = p.designData.panels[panel].imageUrl,
            !.imagePosition = p.designData.panels[panel].position,
            !.imageScale = p.designData.panels[panel].scale,
            !.imageRotation = p.designData.panels[panel].rotation]
    ELSE [p EXCEPT !.activePanel = panel]

\* A click on one of the two panel buttons.
handlePanelChange ==
    /\ pers.mounted /\ PersRender = "designer"
    /\ \E panel \in PANEL_TYPES : pers' = PanelChange(pers, panel)
    /\ pers' # pers
    /\ UNCHANGED NotPers

\* A drag of the image (handleMouseDown, handleMouseMove, handleMouseUp) or a
\* slider's onChange; all are offered only while an image is shown.
PersAdjust ==
    /\ pers.mounted /\ PersRender = "designer"
    /\ pers.uploadedImage # NoImage
    /\ pers.adjusts < MaxAdjusts
    /\ \/ \E v \in POSITIONS \ {pers.imagePosition} :
            pers' = [pers EXCEPT !.imagePosition = v, !.adjusts = @ + 1]
       \/ \E v \in SCALES \ {pers.imageScale} :
            pers' = [pers EXCEPT !.imageScale = v, !.adjusts = @ + 1]
       \/ \E v \in ROTATIONS \ {pers.imageRotation} :
            pers' = [pers EXCEPT !.imageRotation = v, !.adjusts = @ + 1]
    /\ UNCHANGED NotPers

\* handleBackToDesign, the listener of the window's 'backToDesign' event the
\* preview's "Back to Design" button dispatches.
handleBackToDesign ==
    /\ pers.mounted /\ PersRender = "preview"
    /\ pers' = [pers EXCEPT !.mode = "design"]
    /\ UNCHANGED NotPers

InitPers ==
    /\ PersInit
    /\ rules = Unmounted /\ casePage = Unmounted /\ adminLayout = Unmounted
    /\ admin = Unmounted /\ profile = Unmounted /\ api = Unmounted
    /\ scene = Unmounted

NextPers ==
    \/ PersAuthChanged \/ PersAuthGetDoc \/ fetchDataProducts \/ fetchDataDesigns
    \/ handleFileUpload \/ handleFileUploadDone \/ handleSaveDesign
    \/ handleSaveDesignDone \/ handlePanelChange \/ PersAdjust
    \/ handleBackToDesign

SpecPers == InitPers /\ [][NextPers]_vars

\* C1: mode starts as 'design'; it becomes 'preview' only in the step that
\* completes a handleSaveDesign call whose setDoc succeeded (the step that
\* records the written design); a save that throws leaves mode 'design'; mode
\* returns to 'design' only by the backToDesign listener, which changes
\* nothing else; and the preview with its "Proceed to Checkout" button is
\* rendered only while mode is 'preview'.
C1_ModeWorkflow ==
    /\ pers.mounted => pers.mode = "design"
    /\ [][pers.mounted =>
            /\ (pers.mode = "design" /\ pers'.mode = "preview") =>
                \E c \in pers.calls \ pers'.calls :
                    /\ c.kind = "handleSaveDesign"
                    /\ pers'.written # pers.written
                    /\ pers'.written = pers'.designData
                    /\ pers'.written.id \in pers'.designs
            /\ \A c \in pers.calls \ pers'.calls :
                (c.kind = "handleSaveDesign" /\ pers'.written = pers.written) =>
                    pers.mode = "design" /\ pers'.mode = "design"
            /\ (pers.mode = "preview" /\ pers'.mode = "design") =>
                pers' = [pers EXCEPT !.mode = "design"]]_vars
    /\ [](pers.mounted =>
            /\ pers.mode \in {"design", "preview"}
            /\ PersRender = "preview" => pers.mode = "preview")

C1_Witness ==
    /\ pers.mounted /\ PersRender = "preview"
    /\ pers.written = pers.designData
    /\ pers.saves = 2

\* C2: when the backend enforces the repository's Firestore rules, no query
\* or write of the 'designs' collection made by a signed-in user is denied.
C2_DesignsPermitted ==
    pers.mounted =>
        \A r \in pers.denied : ~(r.coll = "designs" /\ r.auth # NULL)

\* C11: one page instance creates at most one document in 'designs': once a
\* save has created the document, designData keeps its id, so every later
\* save writes to that document.
C11_OneDocument ==
    pers.mounted =>
        /\ pers.created <= 1
        /\ pers.created >= 1 =>
            pers.designData # NoDesign /\ pers.designData.id # NoDocId

\* C12: in the step that enters preview mode, the design document just
\* written holds a storage download URL as the imageUrl of the panel that was
\* active when "Finish & Preview" was pressed.
C12_PreviewHasImage ==
    [][(pers.mounted /\ pers.mode = "design" /\ pers'.mode = "preview") =>
        \A c \in pers.calls \ pers'.calls :
            c.kind = "handleSaveDesign" =>
                pers'.written.panels[c.activePanel].imageUrl.kind = "storage"]_vars

\* C13: in the step that completes a handleFileUpload call successfully, the
\* image shown in the editor becomes the imageUrl designData holds for the
\* panel that is active then.
C13_EditorShowsPanelImage ==
    [][pers.mounted =>
        \A c \in pers.calls \ pers'.calls :
            (c.kind = "handleFileUpload" /\ pers'.uploadedImage = DownloadUrl(c.n)) =>
                /\ pers'.designData # NoDesign
                /\ pers'.uploadedImage =
                        pers'.designData.panels[pers'.activePanel].imageUrl]_vars

\* C14: the step that completes a handleFileUpload or handleSaveDesign call
\* changes of designData at most the entry of the panel that was active when
\* the handler was invoked, updatedAt and (on a first save) id.
C14_Frame ==
    [][pers.mounted =>
        \A c \in pers.calls \ pers'.calls :
            (c.kind \in {"handleFileUpload", "handleSaveDesign"}
             /\ pers.designData # NoDesign) =>
                LET d == pers.designData
                    e == pers'.designData
                IN  /\ e # NoDesign
                    /\ \A t \in PANEL_TYPES \ {c.activePanel} :
                            e.panels[t] = d.panels[t]
                    /\ e.userId = d.userId /\ e.caseId = d.caseId
                    /\ e.name = d.name /\ e.createdAt = d.createdAt
                    /\ e.id = d.id
                       \/ (c.kind = "handleSaveDesign" /\ d.id = NoDocId
                           /\ pers'.created = pers.created + 1)]_vars

\* C15: switching the active panel from A to another panel and back to A
\* leaves the editor's image, position, scale and rotation as they were
\* before the first switch.
C15_SwitchRoundTrip ==
    (pers.mounted /\ PersRender = "designer") =>
        \A B \in PANEL_TYPES \ {pers.activePanel} :
            LET q == PanelChange(PanelChange(pers, B), pers.activePanel)
            IN  /\ q.uploadedImage = pers.uploadedImage
                /\ q.imagePosition = pers.imagePosition
                /\ q.imageScale = pers.imageScale
                /\ q.imageRotation = pers.imageRotation

====
